---- MODULE Spec2Model ----
(***************************************************************************)
(* A model of SimPEG/Parallel.py: the work partitioning (_subSlice), the   *)
(* scheduler (SystemSolver.__call__, wait), the load-balanced execution of *)
(* the tasks it submits, the transport selection of RemoteInterface and    *)
(* its collectives over the workers' namespaces.                           *)
(***************************************************************************)
EXTENDS Integers, Sequences, FiniteSets, TLC

(* ------------------------------ bounds -------------------------------- *)
\* largest slice start / stop and chunk count tried for _subSlice
MaxStart == 2
MaxStop == 5
MaxChunks == 4
\* engines (workers) and subproblem tags of the cluster the scheduler runs on
NEng == 2
NTags == 2
\* largest chunksPerWorker of the problem object
MaxCPW == 2
\* configurations whose schedule submits more tasks than this are left out
MaxTasks == 6
\* largest source index of the ranges handed to the scheduler
MaxSrc == 1
\* largest value of a local field or of a worker's K
MaxVal == 1
\* collectives called on one interface
MaxCalls == 1
\* sub-indices a survey can be set up for
MaxSub == 2
\* objects (surveys, subproblems) the factories construct in a run
MaxObjs == 4
\* the largest high-water mark a controller is run with
MaxHWM == 2
\* elements of a field array
FieldLen == 2

(* Python's None, and a present value v, as sequences: <<>> and <<v>> *)
None == <<>>
Some(v) == <<v>>

VARIABLES
    \* ---- _subSlice called on its own
    insl,       \* the slice handed to _subSlice: [start, stop], each None or Some(n)
    chunks,     \* the chunk count handed to _subSlice
    subs,       \* the list _subSlice returned
    called,     \* whether _subSlice has returned
    \* ---- the scheduler and the cluster it submits to
    localProblems,   \* engine -> the tags it hosts (keys of endpoint.localProblems)
    chunksPerWorker, \* problem.chunksPerWorker
    ensembleClear,   \* problem.ensembleClear
    useMPI,          \* remote.useMPI
    isrcs,           \* the source range handed to __call__
    reduceLabels,    \* schedule[entry]['reduce']
    pc,              \* the client: "start", "submitted", "raised", "waited"
    tasks,           \* the tasks submitted to the load-balanced view, in order
    st,              \* task -> "pending", "running", "ok", "failed"
    eng,             \* task -> the engine its body ran on (-1: none)
    tried,           \* task -> engines whose run raised UnmetDependency
    G,               \* the SystemGraph __call__ returned
    waitedOn,        \* the tasks SystemSolver.wait blocked on
    localFields,     \* engine -> endpoint.localFields (name -> value)
    globalFields,    \* engine -> endpoint.globalFields (name -> value or None)
    \* ---- RemoteInterface: its construction and its collectives
    env,             \* worker -> environment variable -> "unset", "empty" or "set"
    mpiOpt,          \* the MPI argument of __init__: "None", "True" or "False"
    ns,              \* worker -> its interactive namespace (name -> value)
    nsBefore,        \* ns as it was when the last collective was called
    lastOp,          \* the last collective called, with its arguments
    result,          \* what it returned
    calls,           \* the calls made so far on the interface or the endpoint
    \* ---- Endpoint: the set-up calls made on a worker
    fieldspec,       \* endpoint.fieldspec: None, or Some(the names it has constructors for)
    localSurveys,    \* engine -> endpoint.localSurveys (isub -> survey object)
    problems,        \* engine -> endpoint.localProblems (tag -> subproblem object)
    nextObj,         \* the identity the next constructed object gets
    epBefore,        \* the Endpoint's dicts as they were when the last set-up call was made
    epOp,            \* the last set-up call, with its arguments
    \* ---- what __call__ has done to the workers
    queried,         \* whether __call__ has queried the workers (dview[...])
    \* ---- the controller behind the load-balanced view
    hwm              \* its high-water mark: the tasks an engine may have outstanding

sliceVars == <<insl, chunks, subs, called>>
cfgVars == <<localProblems, chunksPerWorker, ensembleClear, useMPI, isrcs, reduceLabels>>
fieldVars == <<localFields, globalFields>>
schedVars == <<cfgVars, pc, tasks, st, eng, tried, G, waitedOn, fieldVars>>
remoteVars == <<env, mpiOpt, ns, nsBefore, lastOp, result, calls>>
endpointVars == <<fieldspec, localSurveys, problems, nextObj, epBefore, epOp>>
vars == <<sliceVars, schedVars, remoteVars, endpointVars, queried, hwm>>

(* ------------------------- work partitioning -------------------------- *)
\* insl.start or 0
StartOf(sl) == IF sl.start = None \/ sl.start = Some(0) THEN 0 ELSE sl.start[1]

\* a slice(a, b) object
Slice(a, b) == [start |-> Some(a), stop |-> Some(b)]

\* mutation: the quotient rounded to the nearest integer (halves upwards)
BoundaryRound(start, nproblems, c, i) == start + ((2 * i * nproblems + c) \div (2 * c))

\* the i-th boundary the list comprehension computes: start + i*nproblems/chunks
\* (Python 2 integer division: floor)
Boundary(start, nproblems, c, i) == start + ((i * nproblems) \div c)

\* mutation: the upper boundary of a chunk rounded up instead of down
SubSliceCeil(sl, c) ==
    LET start == StartOf(sl)
        nproblems == sl.stop[1] - start
    IN  [k \in 1..c |->
            Slice(start + (((k-1) * nproblems) \div c),
                  start + ((k * nproblems + c - 1) \div c))]

\* SystemSolver._subSlice(insl, chunks): element k (1-based) is Python's i = k-1
subSlice(sl, c) ==
    LET start == StartOf(sl)
        nproblems == sl.stop[1] - start
    IN  [k \in 1..c |->
            Slice(Boundary(start, nproblems, c, k-1), Boundary(start, nproblems, c, k))]

\* the source indices a slice(a, b) selects
Indices(s) == {n \in s.start[1]..(s.stop[1] - 1) : TRUE}

(* ------------------------------ scheduler ----------------------------- *)
Engines == 0..(NEng - 1)
Tags == 1..NTags
FieldNames == {"u", "v"}

\* ids = dview['rank']: the engines' ranks, in the view's order
ids == [i \in 1..NEng |-> i - 1]

\* a dict with d[k] = v set
Put(d, k, v) == [x \in (DOMAIN d) \cup {k} |-> IF x = k THEN v ELSE d[x]]

\* the slice __call__ works on: None becomes slice(None)
EffSlice ==
    IF isrcs.type = "none" THEN [start |-> None, stop |-> None]
    ELSE [start |-> isrcs.start, stop |-> isrcs.stop]

\* tags = the union of the workers' localProblems keys
AllTags == UNION {localProblems[e] : e \in Engines}
TagHosted(t) == t \in AllTags
\* the order the loop visits the tags in (a set's order; nothing depends on it)
TagSeq == SelectSeq([i \in 1..NTags |-> i], TagHosted)

\* relIDs: the ranks whose localProblems hold the tag
RelIDs(T) == SelectSeq(ids, LAMBDA r : T \in localProblems[r])

\* mutation: 'if work' as a test of the sub-slice's width
SliceNonEmpty(work) == work.start[1] < work.stop[1]

\* 'if work': the truth value of a slice object. slice defines neither
\* __nonzero__ nor __len__, so every slice, the empty ones too, is true
SliceTruth(work) == TRUE

\* the sub-slices the loop body runs for
Works(T) == SelectSeq(subSlice(EffSlice, chunksPerWorker * Len(RelIDs(T))), SliceTruth)

NoWork == [start |-> None, stop |-> None]

\* mutation: the individual clear submitted without its flags
ClearFlagsNone(base, i) == [after |-> {}, follow |-> 0]

\* temp_flags(follow=sjob, after=sjob) of the individual clear of compute i
ClearFlags(base, i) == [after |-> {base + i}, follow |-> base + i]

\* the tasks one pass of the tag loop submits, the first of them numbered base+1
TagBlock(T, base) ==
    LET works == Works(T)
        n == Len(works)
        rel == RelIDs(T)
        computes == [i \in 1..n |->
            [kind |-> "compute", tag |-> T, work |-> works[i], after |-> {},
             follow |-> 0, arg |-> None, key |-> ""]]
        ensemble == [j \in 1..Len(rel) |->
            [kind |-> "clear", tag |-> T, work |-> NoWork,
             after |-> {base + i : i \in 1..n}, follow |-> 0,
             arg |-> Some(rel[j]), key |-> ""]]
        individual == [i \in 1..n |->
            [kind |-> "clear", tag |-> T, work |-> NoWork,
             after |-> ClearFlags(base, i).after, follow |-> ClearFlags(base, i).follow,
             arg |-> None, key |-> ""]]
    IN  computes \o (IF ensembleClear THEN ensemble ELSE individual)

RECURSIVE Blocks(_)
\* the tasks of the first k tags
Blocks(k) ==
    IF k = 0 THEN <<>>
    ELSE LET prev == Blocks(k - 1) IN prev \o TagBlock(TagSeq[k], Len(prev))

TagTasks == Blocks(Len(TagSeq))
\* clearJobs, as task numbers
ClearJobs == {t \in 1..Len(TagTasks) : TagTasks[t].kind = "clear"}

\* the task numbers of the j-th reduction's map job
ReduceIds(j) == {Len(TagTasks) + (j - 1) * NEng + w : w \in 1..NEng}

\* mutation: every reduction submitted after the clear jobs only
ReduceAfterClears(j) == ClearJobs

\* the 'after' of the j-th reduceLB call: clearJobs, then the previous job
ReduceAfter(j) == IF j = 1 THEN ClearJobs ELSE ReduceIds(j - 1)

\* RemoteInterface.reduceLB(endpoint, key, after): in collective mode a map of
\* _reduceJob over the workers 0..n-1 with root 0, one task per worker; in
\* star mode nothing is submitted and None is returned
ReduceLB(key, after) ==
    IF ~useMPI THEN <<>>
    ELSE [x \in 1..NEng |->
            [kind |-> "reduce", tag |-> 0, work |-> NoWork, after |-> after,
             follow |-> 0, arg |-> Some(x - 1), key |-> key]]

RECURSIVE ReduceChain(_)
\* the tasks of the first j reduceLB calls of the loop over reduceLabels
ReduceChain(j) ==
    IF j = 0 THEN <<>>
    ELSE ReduceChain(j - 1) \o ReduceLB(reduceLabels[j], ReduceAfter(j))

ReduceTasks == ReduceChain(Len(reduceLabels))

\* everything __call__ submits
Schedule == TagTasks \o ReduceTasks

Node(kind, tag, idx) == [kind |-> kind, tag |-> tag, idx |-> idx]
BeginNode == Node("Beginning", 0, 0)
EndNode == Node("End", 0, 0)

\* mutation: the clear nodes of a tag never wired to its Tail node
TagGraphNoTailEdges(k) ==
    LET T == TagSeq[k]
        base == Len(Blocks(k - 1))
        n == Len(Works(T))
        rel == RelIDs(T)
        head == Node("Head", T, 0)
        tail == Node("Tail", T, 0)
        wrap == Node("WrapAll", T, 0)
        comp(i) == Node("Compute", T, i - 1)
        ends == IF ensembleClear THEN {Node("Wrap", T, rel[j]) : j \in 1..Len(rel)}
                ELSE {Node("Wrap", T, i - 1) : i \in 1..n}
    IN  [nodes |-> {head, tail} \cup {comp(i) : i \in 1..n} \cup ends
                   \cup (IF ensembleClear THEN {wrap} ELSE {}),
         edges |-> {<<BeginNode, head>>, <<tail, EndNode>>}
                   \cup {<<head, comp(i)>> : i \in 1..n}
                   \cup (IF ensembleClear
                         THEN {<<comp(i), wrap>> : i \in 1..n} \cup {<<wrap, e>> : e \in ends}
                         ELSE {<<comp(i), Node("Wrap", T, i - 1)>> : i \in 1..n}),
         jobs |-> {<<comp(i), <<{base + i}>> >> : i \in 1..n}
                  \cup (IF ensembleClear
                        THEN {<<Node("Wrap", T, rel[j]), <<{base + n + j}>> >> : j \in 1..Len(rel)}
                        ELSE {<<Node("Wrap", T, i - 1), <<{base + n + i}>> >> : i \in 1..n})]

\* the nodes, edges and jobs one pass of the tag loop adds
TagGraph(k) ==
    LET T == TagSeq[k]
        base == Len(Blocks(k - 1))
        n == Len(Works(T))
        rel == RelIDs(T)
        head == Node("Head", T, 0)
        tail == Node("Tail", T, 0)
        wrap == Node("WrapAll", T, 0)
        comp(i) == Node("Compute", T, i - 1)
        ends == IF ensembleClear THEN {Node("Wrap", T, rel[j]) : j \in 1..Len(rel)}
                ELSE {Node("Wrap", T, i - 1) : i \in 1..n}
    IN  [nodes |-> {head, tail} \cup {comp(i) : i \in 1..n} \cup ends
                   \cup (IF ensembleClear THEN {wrap} ELSE {}),
         edges |-> {<<BeginNode, head>>, <<tail, EndNode>>}
                   \cup {<<head, comp(i)>> : i \in 1..n}
                   \cup {<<e, tail>> : e \in ends}
                   \cup (IF ensembleClear
                         THEN {<<comp(i), wrap>> : i \in 1..n} \cup {<<wrap, e>> : e \in ends}
                         ELSE {<<comp(i), Node("Wrap", T, i - 1)>> : i \in 1..n}),
         jobs |-> {<<comp(i), <<{base + i}>> >> : i \in 1..n}
                  \cup (IF ensembleClear
                        THEN {<<Node("Wrap", T, rel[j]), <<{base + n + j}>> >> : j \in 1..Len(rel)}
                        ELSE {<<Node("Wrap", T, i - 1), <<{base + n + i}>> >> : i \in 1..n})]

\* mutation: End carrying the last reduction's job only
EndJobsLast ==
    IF useMPI /\ Len(reduceLabels) > 0 THEN <<ReduceIds(Len(reduceLabels))>> ELSE <<>>

\* the 'jobs' list of the End node: every job reduceLB returned (None in star mode)
EndJobs == IF useMPI THEN [j \in 1..Len(reduceLabels) |-> ReduceIds(j)] ELSE <<>>

\* the graph __call__ returns; jobs maps the nodes that carry a 'jobs' attribute
Graph ==
    LET parts == {TagGraph(k) : k \in 1..Len(TagSeq)}
        pairs == UNION {p.jobs : p \in parts} \cup {<<EndNode, EndJobs>>}
    IN  [nodes |-> {BeginNode, EndNode} \cup UNION {p.nodes : p \in parts},
         edges |-> UNION {p.edges : p \in parts},
         jobs  |-> [nd \in {pr[1] : pr \in pairs} |->
                        (CHOOSE pr \in pairs : pr[1] = nd)[2]]]

EmptyGraph == [nodes |-> {}, edges |-> {}, jobs |-> <<>>]

\* what makes __call__ raise: a range that is neither None nor a slice, or the
\* None range, whose slice(None) has no stop for _subSlice to subtract from
ShapeError == isrcs.type = "other"
SubSliceError == isrcs.type = "none" /\ AllTags # {}

\* mutation: the workers are queried before the range is looked at
WorkersQueriedFirst == TRUE
\* the dview queries (systemsOnWorkers, ids) come after the check of the
\* range: they are made unless that check raised
WorkersQueried == ~ShapeError

(* ------------------- SystemSolver.__call__ and wait ------------------- *)
\* __call__(entry, isrcs): raises, or submits every task and returns the graph
Call ==
    /\ pc = "start"
    /\ IF ShapeError \/ SubSliceError
       THEN /\ pc' = "raised"
            /\ UNCHANGED <<tasks, st, eng, tried, G>>
       ELSE /\ pc' = "submitted"
            /\ tasks' = Schedule
            /\ st' = [t \in 1..Len(Schedule) |-> "pending"]
            /\ eng' = [t \in 1..Len(Schedule) |-> -1]
            /\ tried' = [t \in 1..Len(Schedule) |-> {}]
            /\ G' = Graph
    /\ queried' = WorkersQueried
    /\ UNCHANGED <<cfgVars, waitedOn, fieldVars, sliceVars, remoteVars, endpointVars, hwm>>

Preds(n) == {e[1] : e \in {x \in G.edges : x[2] = n}}
JobIds(n) == UNION {G.jobs[n][i] : i \in 1..Len(G.jobs[n])}
Ready(t) == st[t] \in {"ok", "failed"}

\* mutation: wait blocking on the jobs of every predecessor of every Tail node
WaitAllPreds == {UNION {JobIds(wn) : wn \in UNION {Preds(tn) : tn \in Preds(EndNode)}}}

\* the job sets wait can block on: End's jobs when the list is not empty, else
\* the jobs of G.predecessors(tn)[0] for each predecessor tn of End. Which
\* predecessor comes first is the order of a dict of labels: any of them
WaitSets ==
    IF Len(G.jobs[EndNode]) > 0 THEN {JobIds(EndNode)}
    ELSE LET tails == Preds(EndNode)
             firsts == {f \in [tails -> G.nodes] : \A tn \in tails : f[tn] \in Preds(tn)}
         IN  {UNION {JobIds(f[tn]) : tn \in tails} : f \in firsts}

\* SystemSolver.wait(G): returns once every job it blocks on is ready
Wait ==
    /\ pc = "submitted"
    /\ \E W \in WaitSets :
          /\ \A t \in W : Ready(t)
          /\ waitedOn' = W
    /\ pc' = "waited"
    /\ UNCHANGED <<cfgVars, tasks, st, eng, tried, G, fieldVars, sliceVars, remoteVars, endpointVars, queried, hwm>>

\* SystemGraph._codeStatus(data): 0 without a 'jobs' attribute, else from the
\* last job of the list: 1 pending, 2 ready and successful, 3 ready and failed.
\* An empty list has no last job: data['jobs'][-1] raises IndexError (-1 here)
CodeStatus(n) ==
    IF n \notin DOMAIN G.jobs THEN 0
    ELSE IF Len(G.jobs[n]) = 0 THEN -1
    ELSE LET last == G.jobs[n][Len(G.jobs[n])]
         IN  IF \E t \in last : ~Ready(t) THEN 1
             ELSE IF \A t \in last : st[t] = "ok" THEN 2 ELSE 3

(* --------------------- the load-balanced view's tasks ----------------- *)
Submitted == pc \in {"submitted", "waited"}
TaskIds == DOMAIN tasks
\* an engine runs one task at a time; it is busy while a task's body has not returned
Busy(e) == \E t \in TaskIds : st[t] = "running" /\ eng[t] = e
\* after: every listed job finished, successfully
DepsMet(t) == \A d \in tasks[t].after : st[d] = "ok"
\* a listed job failed: the dependency can never be met
DepsImpossible(t) == \E d \in tasks[t].after : st[d] = "failed"
\* follow: only the engine the listed job ran on
FollowMet(t, e) == IF tasks[t].follow = 0 THEN TRUE ELSE eng[tasks[t].follow] = e

\* an engine holding a task it has been handed and has not started
Waiting(e) == \E t \in TaskIds : st[t] = "queued" /\ eng[t] = e
\* the tasks engine e has outstanding: the one it runs and those it holds
Outstanding(e) == Cardinality({t \in TaskIds : st[t] \in {"running", "queued"} /\ eng[t] = e})
\* the high-water mark of a controller started with its defaults
DefaultHWM == 1

\* the engines the load balancer may hand task t to for it to start at once:
\* idle ones. lview.apply is given no
\* flag that names a tag or a rank, so no engine is excluded for what it hosts
Eligible(t) == {e \in Engines : FollowMet(t, e) /\ ~Busy(e) /\ ~Waiting(e) /\ e \notin tried[t]}

\* mutation: the load balancer hands tasks over whatever the engine has outstanding
CanQueueAlways(e) == TRUE
\* the load balancer hands an engine a further task only below the high-water mark
CanQueue(e) == Outstanding(e) < hwm

\* a compute or clear task runs on engine e: functions[solve](endpoint, tag, work)
\* or functions[clear](endpoint, tag[, rank]); the body returns or raises
RunTask(t, e, ok) ==
    /\ Submitted
    /\ tasks[t].kind \in {"compute", "clear"}
    /\ st[t] = "pending"
    /\ DepsMet(t)
    /\ e \in Eligible(t)
    /\ st' = [st EXCEPT ![t] = IF ok THEN "ok" ELSE "failed"]
    /\ eng' = [eng EXCEPT ![t] = e]
    /\ UNCHANGED <<cfgVars, pc, tasks, tried, G, waitedOn, fieldVars, sliceVars, remoteVars, endpointVars, queried, hwm>>

\* a task one of whose 'after' jobs failed is failed by the load balancer, unrun
Unreachable(t) ==
    /\ Submitted
    /\ st[t] = "pending"
    /\ DepsImpossible(t)
    /\ st' = [st EXCEPT ![t] = "failed"]
    /\ UNCHANGED <<cfgVars, pc, tasks, eng, tried, G, waitedOn, fieldVars, sliceVars, remoteVars, endpointVars, queried, hwm>>

\* _reduceJob on an engine whose rank is not 'worker': raises UnmetDependency,
\* and the load balancer will hand the task to another engine
ReduceUnmet(t, e) ==
    /\ Submitted
    /\ tasks[t].kind = "reduce"
    /\ st[t] = "pending"
    /\ DepsMet(t)
    /\ e \in Eligible(t)
    /\ e # tasks[t].arg[1]
    /\ tried' = [tried EXCEPT ![t] = @ \cup {e}]
    /\ UNCHANGED <<cfgVars, pc, tasks, st, eng, G, waitedOn, fieldVars, sliceVars, remoteVars, endpointVars, queried, hwm>>

\* _reduceJob on the engine whose rank is 'worker': creates the missing local
\* field from fieldspec (an empty container: 0) and enters comm.reduce
ReduceEnter(t, e) ==
    /\ Submitted
    /\ tasks[t].kind = "reduce"
    /\ st[t] = "pending"
    /\ DepsMet(t)
    /\ e \in Eligible(t)
    /\ e = tasks[t].arg[1]
    /\ st' = [st EXCEPT ![t] = "running"]
    /\ eng' = [eng EXCEPT ![t] = e]
    /\ localFields' = [localFields EXCEPT ![e] =
            IF tasks[t].key \in DOMAIN @ THEN @ ELSE Put(@, tasks[t].key, 0)]
    /\ UNCHANGED <<cfgVars, pc, tasks, tried, G, waitedOn, globalFields, sliceVars, remoteVars, endpointVars, queried, hwm>>

\* the load balancer hands the reduce task t to engine e while e is occupied:
\* the task waits on e until what is before it has returned
Enqueue(t, e) ==
    /\ Submitted
    /\ tasks[t].kind = "reduce"
    /\ st[t] = "pending"
    /\ DepsMet(t)
    /\ FollowMet(t, e) /\ e \notin tried[t]
    /\ Busy(e) \/ Waiting(e)
    /\ CanQueue(e)
    /\ st' = [st EXCEPT ![t] = "queued"]
    /\ eng' = [eng EXCEPT ![t] = e]
    /\ UNCHANGED <<cfgVars, pc, tasks, tried, G, waitedOn, fieldVars, sliceVars, remoteVars, endpointVars, queried, hwm>>

\* a task waiting on an engine starts there once the engine is free:
\* _reduceJob finds the rank is not 'worker' and raises UnmetDependency, back
\* to the load balancer, or finds it is and enters comm.reduce
QueuedStart(t) ==
    /\ Submitted
    /\ st[t] = "queued"
    /\ ~Busy(eng[t])
    /\ IF eng[t] # tasks[t].arg[1]
       THEN /\ tried' = [tried EXCEPT ![t] = @ \cup {eng[t]}]
            /\ st' = [st EXCEPT ![t] = "pending"]
            /\ eng' = [eng EXCEPT ![t] = -1]
            /\ UNCHANGED localFields
       ELSE /\ st' = [st EXCEPT ![t] = "running"]
            /\ localFields' = [localFields EXCEPT ![eng[t]] =
                    IF tasks[t].key \in DOMAIN @ THEN @ ELSE Put(@, tasks[t].key, 0)]
            /\ UNCHANGED <<eng, tried>>
    /\ UNCHANGED <<cfgVars, pc, tasks, G, waitedOn, globalFields, sliceVars, remoteVars, endpointVars, queried, hwm>>

\* the client calls remote.reduceLB(endpoint, key) itself, with no 'after'
CallReduceLB(key) ==
    /\ pc = "start"
    /\ pc' = "submitted"
    /\ tasks' = ReduceLB(key, {})
    /\ st' = [t \in 1..Len(ReduceLB(key, {})) |-> "pending"]
    /\ eng' = [t \in 1..Len(ReduceLB(key, {})) |-> -1]
    /\ tried' = [t \in 1..Len(ReduceLB(key, {})) |-> {}]
    /\ UNCHANGED <<cfgVars, G, waitedOn, fieldVars, sliceVars, remoteVars, endpointVars, queried, hwm>>

\* the jobs of the same map call as t
Siblings(t) ==
    {x \in TaskIds : tasks[x].kind = "reduce" /\ tasks[x].key = tasks[t].key
                     /\ tasks[x].after = tasks[t].after}

RECURSIVE SumRanks(_, _)
\* comm.reduce's sum of the ranks 0..n-1 contributions, in rank order
SumRanks(key, n) ==
    IF n = 0 THEN 0 ELSE SumRanks(key, n - 1) + localFields[n - 1][key]

\* mutation: the root's own contribution left out of the sum
ReducedOthers(e, key) == IF e = 0 THEN Some(SumRanks(key, NEng) - localFields[0][key]) ELSE None

\* what comm.reduce(..., root=0) returns on rank e: the sum on the root, None elsewhere
Reduced(e, key) == IF e = 0 THEN Some(SumRanks(key, NEng)) ELSE None

\* comm.reduce returns on the engine running t and _reduceJob stores what it
\* returned in globalFields[key]. The root returns once every rank has
\* contributed; another rank may return as soon as it has sent its own part
ReduceLeave(t) ==
    /\ Submitted
    /\ tasks[t].kind = "reduce"
    /\ st[t] = "running"
    /\ eng[t] = 0 => \A x \in Siblings(t) : st[x] \in {"running", "ok"}
    /\ globalFields' = [globalFields EXCEPT ![eng[t]] =
            Put(@, tasks[t].key, Reduced(eng[t], tasks[t].key))]
    /\ st' = [st EXCEPT ![t] = "ok"]
    /\ UNCHANGED <<cfgVars, pc, tasks, eng, tried, G, waitedOn, localFields, sliceVars, remoteVars, endpointVars, queried, hwm>>

(* ------------------- RemoteInterface: construction -------------------- *)
\* MPI_BELLWETHERS
MPI_BELLWETHERS == <<"PMI_SIZE", "OMPI_UNIVERSE_SIZE">>
\* DEFAULT_MPI
DEFAULT_MPI == TRUE

\* the truth value of os.getenv(var): None when unset, '' (false) when set to
\* nothing, a non-empty string (true) otherwise
GetenvTrue(v) == v = "set"

\* all(dview['os.getenv("var")'])
AllWorkers(var) == \A w \in Engines : GetenvTrue(env[w][var])

\* mutation: safe when each worker has some indicator, not all of them the same one
MPISafeEach == \A w \in Engines : \E i \in DOMAIN MPI_BELLWETHERS : GetenvTrue(env[w][MPI_BELLWETHERS[i]])

RECURSIVE MPISafeLoop(_)
\* MPISafe after the loop has taken the first k variables:
\* MPISafe = MPISafe or all(...)
MPISafeLoop(k) ==
    IF k = 0 THEN FALSE ELSE MPISafeLoop(k - 1) \/ AllWorkers(MPI_BELLWETHERS[k])

MPISafe == MPISafeLoop(Len(MPI_BELLWETHERS))

\* MPI = DEFAULT_MPI if MPI is None else MPI
MPIRequested == IF mpiOpt = "None" THEN DEFAULT_MPI ELSE mpiOpt = "True"

\* RemoteInterface.__init__: useMPI is False, then MPISafe when MPI was asked for
Construct ==
    /\ pc = "new"
    /\ pc' = "built"
    /\ useMPI' = IF MPIRequested THEN MPISafe ELSE FALSE
    /\ UNCHANGED <<localProblems, chunksPerWorker, ensembleClear, isrcs, reduceLabels,
                   tasks, st, eng, tried, G, waitedOn, fieldVars, sliceVars, remoteVars, endpointVars, queried, hwm>>

(* -------------------- RemoteInterface: collectives -------------------- *)
\* values are arrays, here sequences of integers; the operators act elementwise
VAdd(a, b) == [i \in DOMAIN a |-> a[i] + b[i]]
VSub(a, b) == [i \in DOMAIN a |-> a[i] - b[i]]
VMul(a, b) == [i \in DOMAIN a |-> a[i] * b[i]]

\* 'temp_%s' % (key,)
Temp(key) == "temp_" \o key
\* 'temp_%(key1)s%(key2)s'
Temp2(key1, key2) == "temp_" \o key1 \o key2

Remove(d, k) == [x \in (DOMAIN d) \ {k} |-> d[x]]
\* view.execute('name = ...') on the workers W, each storing val[w]
Assign(n, W, name, val) == [w \in Engines |-> IF w \in W THEN Put(n[w], name, val[w]) ELSE n[w]]
\* view.execute('del name') on the workers W
Delete(n, W, name) == [w \in Engines |-> IF w \in W THEN Remove(n[w], name) ELSE n[w]]
\* 'del name' raises NameError on a worker that has no such name
DeleteRaises(n, W, name) == \E w \in W : name \notin DOMAIN n[w]

\* dview[key]: the workers' values in the view's order
Pull(n, key) == [i \in 1..NEng |-> n[i - 1][key]]

RECURSIVE FoldAdd(_)
\* reduce(np.add, l): ((l[0] + l[1]) + l[2]) + ...
FoldAdd(l) ==
    IF Len(l) = 1 THEN l[1] ELSE VAdd(FoldAdd(SubSeq(l, 1, Len(l) - 1)), l[Len(l)])

\* mutation: the root's value alone, the other ranks' parts never added
CommSumRoot(n, key, r) == n[r][key]

RECURSIVE CommSum(_, _, _)
\* comm.reduce's sum (MPI.SUM, the default op) of the ranks r..n-1
CommSum(n, key, r) ==
    IF r = NEng - 1 THEN n[r][key] ELSE VAdd(n[r][key], CommSum(n, key, r + 1))

\* dview.execute('temp_key = comm.reduce(key, root=0)'): the sum on rank 0, None elsewhere
ExecReduce(n, key) ==
    Assign(n, Engines, Temp(key), [w \in Engines |-> IF w = 0 THEN CommSum(n, key, 0) ELSE None])

\* dview.execute('if rank != 0: key = None \n key = comm.bcast(key, root=0)')
ExecBcast(n, key) == Assign(n, Engines, key, [w \in Engines |-> n[0][key]])

Op(name, k1, k2, kr) == [name |-> name, k1 |-> k1, k2 |-> k2, kr |-> kr, raised |-> FALSE]
Raised(op) == [op EXCEPT !.raised = TRUE]

\* a collective is called and returns (or raises): the calls are synchronous
Returns(op, n, item) ==
    /\ pc = "built"
    /\ calls < MaxCalls
    /\ calls' = calls + 1
    /\ nsBefore' = ns
    /\ ns' = n
    /\ lastOp' = op
    /\ result' = item
    /\ UNCHANGED <<env, mpiOpt, schedVars, sliceVars, endpointVars, queried, hwm>>

\* RemoteInterface.__getitem__(key)
Get(key) ==
    IF useMPI
    THEN LET n1 == Assign(ns, Engines, Temp(key), [w \in Engines |-> None])
             n2 == Assign(n1, Engines, Temp(key), [w \in Engines |-> IF w = 0 THEN Pull(ns, key) ELSE None])
             item == n2[0][Temp(key)]
             n3 == Delete(n2, {0}, Temp(key))
         IN  Returns(Op("get", key, "", ""), n3, item)
    ELSE Returns(Op("get", key, "", ""), ns, Pull(ns, key))

\* RemoteInterface.reduce(key)
Reduce(key) ==
    IF useMPI
    THEN LET n1 == ExecReduce(ns, key)
             item == n1[0][Temp(key)]
             n2 == Delete(n1, Engines, Temp(key))
         IN  Returns(Op("reduce", key, "", ""), n2, item)
    ELSE Returns(Op("reduce", key, "", ""), ns, FoldAdd(Pull(ns, key)))

RECURSIVE VSumTo(_, _)
\* a[1] + ... + a[k]
VSumTo(a, k) == IF k = 0 THEN 0 ELSE VSumTo(a, k - 1) + a[k]
\* ndarray.sum() / .sum(axis=0) of a one-dimensional array: the sum of its
\* elements, a single number (held as a sequence of one element)
VSum(a) == <<VSumTo(a, Len(a))>>

\* the values of the axis argument: None, or 0 (the one axis a
\* one-dimensional array has)
Axes == {None, Some(0)}
AxisName(axis) == IF axis = None THEN "" ELSE "_axis0"

\* RemoteInterface.reduceMul(key1, key2, axis)
ReduceMul(key1, key2, axis) ==
    LET op == Op("reduceMul" \o AxisName(axis), key1, key2, "") IN
    IF useMPI
    THEN LET n1 == ExecReduce(ns, key1)
             n2 == ExecReduce(n1, key2)
             n3 == Assign(n2, {0}, Temp2(key1, key2),
                          [w \in Engines |-> VMul(n2[0][Temp(key1)], n2[0][Temp(key2)])])
             n3s == IF axis # None
                    THEN Assign(n3, {0}, Temp2(key1, key2),
                                [w \in Engines |-> VSum(n3[0][Temp2(key1, key2)])])
                    ELSE n3
             item == n3s[0][Temp2(key1, key2)]
             n4 == Delete(n3s, Engines, Temp(key1))
             n5 == Delete(n4, Engines, Temp(key2))
             n6 == Delete(n5, {0}, Temp2(key1, key2))
         IN  IF DeleteRaises(n4, Engines, Temp(key2))
             THEN Returns(Raised(op), n4, None)
             ELSE Returns(op, n6, item)
    ELSE Returns(op, ns, VMul(FoldAdd(Pull(ns, key1)), FoldAdd(Pull(ns, key2))))

\* RemoteInterface.remoteMulE0(key1, key2) (axis None)
RemoteMulE0(key1, key2) ==
    LET n1 == Assign(ns, {0}, "temp_field", [w \in Engines |-> VMul(ns[0][key1], ns[0][key2])])
        item == n1[0]["temp_field"]
        n2 == Delete(n1, {0}, "temp_field")
    IN  Returns(Op("remoteMulE0", key1, key2, ""), n2, item)

\* RemoteInterface.remoteDifference(key1, key2, keyresult)
RemoteDifference(key1, key2, kr) ==
    LET op == Op("remoteDifference", key1, key2, kr) IN
    IF useMPI
    THEN LET n1 == ExecReduce(ns, key1)
             n2 == ExecReduce(n1, key2)
             n3 == Assign(n2, {0}, kr, [w \in Engines |-> VSub(n2[0][Temp(key1)], n2[0][Temp(key2)])])
             n4 == ExecBcast(n3, kr)
             n5 == Delete(n4, {0}, Temp(key1))
             n6 == Delete(n5, {0}, Temp(key2))
         IN  IF DeleteRaises(n5, {0}, Temp(key2))
             THEN Returns(Raised(op), n5, None)
             ELSE Returns(op, n6, None)
    ELSE LET item == VSub(FoldAdd(Pull(ns, key1)), FoldAdd(Pull(ns, key2)))
         IN  Returns(op, Assign(ns, Engines, kr, [w \in Engines |-> item]), None)

\* the binary operator a string op names: eval('item1 %s item2' % (op,))
Apply(o, a, b) == IF o = "+" THEN VAdd(a, b) ELSE IF o = "-" THEN VSub(a, b) ELSE VMul(a, b)

\* RemoteInterface.remoteOpGatherFirst(op, key1, key2, keyresult)
RemoteOpGatherFirst(o, key1, key2, kr) ==
    LET op == Op("remoteOpGatherFirst" \o o, key1, key2, kr) IN
    IF useMPI
    THEN LET n1 == ExecReduce(ns, key1)
             n2 == Assign(n1, {0}, kr, [w \in Engines |-> Apply(o, n1[0][Temp(key1)], n1[0][key2])])
             n3 == ExecBcast(n2, kr)
             n4 == Delete(n3, {0}, Temp(key1))
         IN  Returns(op, n4, None)
    ELSE LET item == Apply(o, FoldAdd(Pull(ns, key1)), ns[0][key2])
         IN  Returns(op, Assign(ns, Engines, kr, [w \in Engines |-> item]), None)

RECURSIVE GCD(_, _)
GCD(a, b) == IF b = 0 THEN a ELSE GCD(b, a % b)
Sign(n) == IF n > 0 THEN 1 ELSE IF n < 0 THEN -1 ELSE 0
\* x / y of two real numbers, y >= 0: the exact quotient, as numerator and
\* denominator in lowest terms; over 0 it is inf, -inf or nan (no exception)
Quot(x, y) ==
    IF y[1] = 0 THEN <<Sign(x[1]), 0>>
    ELSE LET g == GCD(IF x[1] < 0 THEN -x[1] ELSE x[1], y[1])
         IN  <<x[1] \div g, y[1] \div g>>

\* (item2.conj() * item1).sum() / (item1.conj() * item1).sum() of real arrays
SrcEst(item1, item2) == Quot(VSum(VMul(item2, item1)), VSum(VMul(item1, item1)))

\* RemoteInterface.remoteSrcEstGatherFirst(keyresult, key1, key2) (individual False)
RemoteSrcEstGatherFirst(kr, key1, key2) ==
    LET op == Op("remoteSrcEstGatherFirst", key1, key2, kr) IN
    IF useMPI
    THEN LET n1 == Assign(ns, {0}, kr, [w \in Engines |-> SrcEst(ns[0][key1], ns[0][key2])])
             n2 == ExecBcast(n1, kr)
         IN  Returns(op, n2, None)
    ELSE LET item == SrcEst(FoldAdd(Pull(ns, key1)), ns[0][key2])
         IN  Returns(op, Assign(ns, Engines, kr, [w \in Engines |-> item]), None)

\* |x| elementwise: sqrt(x * conj(x)).real of a real value
VAbs(a) == [i \in DOMAIN a |-> IF a[i] < 0 THEN -a[i] ELSE a[i]]

\* RemoteInterface.normFromDifference(key), for a real scalar per subproblem
NormFromDifference(key) ==
    LET n1 == Assign(ns, {0}, "temp_norm", [w \in Engines |-> VMul(ns[0][key], ns[0][key])])
        n2 == Assign(n1, {0}, "temp_norm", [w \in Engines |-> VAbs(ns[0][key])])
        item == n2[0]["temp_norm"]
        n3 == Delete(n2, {0}, "temp_norm")
    IN  Returns(Op("normFromDifference", key, "", ""), n3, item)

(* ------------------------------ Endpoint ------------------------------ *)
\* a field container: as fieldspec[fn]() constructs it (empty), or holding data
Empty == 0
Filled == 1
\* the dicts of containers over some of the names
FieldDicts(names) == UNION {[S -> {Empty, Filled}] : S \in SUBSET names}

\* mutation: the fields are never cleared first
ClearedNever(lf, which) == lf
\* if whichfields is None: self.localFields = {}
Cleared(lf, which) == IF which = None THEN <<>> ELSE lf

\* the truth value of whichfields in (whichfields or self.fieldspec): None and
\* the empty list are false
Truthy(which) == which # None /\ which[1] # <<>>

RECURSIVE FieldLoop(_, _, _)
\* for fn in whichfields: self.localFields[fn] = self.fieldspec[fn](), the
\* loop ending with KeyError at the first name fieldspec does not have
FieldLoop(lf, S, l) ==
    IF l = <<>> THEN [lf |-> lf, raised |-> FALSE]
    ELSE IF Head(l) \notin S THEN [lf |-> lf, raised |-> TRUE]
    ELSE FieldLoop(Put(lf, Head(l), Empty), S, Tail(l))

\* for fn in self.fieldspec: self.localFields[fn] = self.fieldspec[fn]()
AllFresh(lf, S) == [n \in (DOMAIN lf) \cup S |-> IF n \in S THEN Empty ELSE lf[n]]

\* Endpoint.setupLocalFields(whichfields) on the dict lf, with fieldspec fs
SetupFields(lf, fs, which) ==
    LET c == Cleared(lf, which) IN
    IF fs = None THEN [lf |-> c, raised |-> FALSE]
    ELSE IF Truthy(which) THEN FieldLoop(c, fs[1], which[1])
    ELSE [lf |-> AllFresh(c, fs[1]), raised |-> FALSE]

EpOp(name, e, arg, raised) == [name |-> name, e |-> e, arg |-> arg, raised |-> raised]

\* endpoint.setupLocalFields(whichfields) called on worker e
SetupLocalFields(e, which) ==
    /\ pc = "endpoint"
    /\ calls < MaxCalls
    /\ calls' = calls + 1
    /\ LET r == SetupFields(localFields[e], fieldspec, which)
       IN  /\ localFields' = [localFields EXCEPT ![e] = r.lf]
           /\ epOp' = EpOp("setupLocalFields", e, which, r.raised)
    /\ epBefore' = localFields[e]
    /\ UNCHANGED <<cfgVars, pc, tasks, st, eng, tried, G, waitedOn, globalFields,
                   sliceVars, env, mpiOpt, ns, nsBefore, lastOp, result,
                   fieldspec, localSurveys, problems, nextObj, queried, hwm>>

SubIdx == 1..MaxSub

\* the Endpoint's dicts of surveys and subproblems on worker e
EpDicts(e) == [surveys |-> localSurveys[e], problems |-> problems[e]]

RECURSIVE NewSurveys(_, _, _)
\* for isub in subConfigs: self.localSurveys[isub] = self.surveyFactory(geom),
\* each survey a new object (identities id, id + 1, ...)
NewSurveys(ls, I, id) ==
    IF I = {} THEN ls
    ELSE LET isub == CHOOSE i \in I : \A j \in I : i <= j
         IN  NewSurveys(Put(ls, isub, id), I \ {isub}, id + 1)

\* endpoint.setupLocalSurveys(subConfigs) on worker e, subConfigs having the keys I
SetupLocalSurveys(e, I) ==
    /\ pc = "endpoint"
    /\ nextObj + Cardinality(I) - 1 <= MaxObjs
    /\ localSurveys' = [localSurveys EXCEPT ![e] = NewSurveys(@, I, nextObj)]
    /\ nextObj' = nextObj + Cardinality(I)
    /\ epBefore' = EpDicts(e)
    /\ epOp' = EpOp("setupLocalSurveys", e, I, FALSE)
    /\ UNCHANGED <<cfgVars, pc, tasks, st, eng, tried, G, waitedOn, fieldVars,
                   sliceVars, remoteVars, fieldspec, problems, queried, hwm>>

\* self.localProblems[subConfig['tag']] = problem
Store(lp, tag, problem) == Put(lp, tag, problem)

\* endpoint.setupLocalProblem(subConfig) on worker e: the subproblem is
\* constructed, then paired with localSurveys[isub] (KeyError when there is
\* none), then stored under the tag
SetupLocalProblem(e, isub, tag) ==
    /\ pc = "endpoint"
    /\ nextObj <= MaxObjs
    /\ nextObj' = nextObj + 1
    /\ epBefore' = EpDicts(e)
    /\ IF isub \notin DOMAIN localSurveys[e]
       THEN /\ epOp' = EpOp("setupLocalProblem", e, [isub |-> isub, tag |-> tag], TRUE)
            /\ UNCHANGED <<problems, localProblems>>
       ELSE /\ epOp' = EpOp("setupLocalProblem", e, [isub |-> isub, tag |-> tag], FALSE)
            /\ problems' = [problems EXCEPT ![e] =
                    Store(@, tag, [id |-> nextObj, survey |-> localSurveys[e][isub]])]
            /\ localProblems' = [localProblems EXCEPT ![e] = @ \cup {tag}]
    /\ UNCHANGED <<chunksPerWorker, ensembleClear, useMPI, isrcs, reduceLabels,
                   pc, tasks, st, eng, tried, G, waitedOn, fieldVars,
                   sliceVars, remoteVars, fieldspec, localSurveys, queried, hwm>>

(* ----------------------------- idle parts ----------------------------- *)
\* the values of the variables of a part that plays no role in a specification
NoSchedule ==
    /\ localProblems = [e \in Engines |-> {}]
    /\ chunksPerWorker = 1
    /\ ensembleClear = FALSE
    /\ isrcs = [type |-> "none", start |-> None, stop |-> None]
    /\ reduceLabels = <<>>

\* nothing submitted to the load-balanced view yet
Unscheduled ==
    /\ tasks = <<>>
    /\ st = <<>>
    /\ eng = <<>>
    /\ tried = <<>>
    /\ G = EmptyGraph
    /\ waitedOn = {}
    /\ queried = FALSE

\* nothing submitted yet, to a controller started with its defaults
NoTasks ==
    /\ Unscheduled
    /\ hwm = DefaultHWM

NoFields ==
    /\ localFields = [e \in Engines |-> <<>>]
    /\ globalFields = [e \in Engines |-> <<>>]

SchedIdle == NoSchedule /\ useMPI = FALSE /\ pc = "idle" /\ NoTasks /\ NoFields

SliceIdle ==
    /\ insl = [start |-> None, stop |-> Some(0)]
    /\ chunks = 1
    /\ subs = <<>>
    /\ called = FALSE

NoEnv ==
    /\ env = [w \in Engines |-> [i \in {"PMI_SIZE", "OMPI_UNIVERSE_SIZE"} |-> "unset"]]
    /\ mpiOpt = "None"

NoCollective ==
    /\ ns = [w \in Engines |-> <<>>]
    /\ nsBefore = [w \in Engines |-> <<>>]
    /\ lastOp = Op("none", "", "", "")
    /\ result = None
    /\ calls = 0

RemoteIdle == NoEnv /\ NoCollective

NoSetup ==
    /\ localSurveys = [e \in Engines |-> <<>>]
    /\ problems = [e \in Engines |-> <<>>]
    /\ nextObj = 1
    /\ epBefore = <<>>
    /\ epOp = EpOp("none", 0, None, FALSE)

EndpointIdle == fieldspec = None /\ NoSetup

(* -------------------- specification: _subSlice alone ------------------ *)
InitSlice ==
    /\ EndpointIdle
    /\ insl \in [start : {None} \cup {Some(a) : a \in 0..MaxStart},
                 stop  : {Some(b) : b \in 0..MaxStop}]
    /\ StartOf(insl) <= insl.stop[1]
    /\ chunks \in 1..MaxChunks
    /\ subs = <<>>
    /\ called = FALSE
    /\ SchedIdle
    /\ RemoteIdle

CallSubSlice ==
    /\ ~called
    /\ subs' = subSlice(insl, chunks)
    /\ called' = TRUE
    /\ UNCHANGED <<insl, chunks, schedVars, remoteVars, endpointVars, queried, hwm>>

NextSlice == CallSubSlice

SpecSlice == InitSlice /\ [][NextSlice]_vars

(* ------------- specification: the scheduler and its tasks ------------- *)

SchedRanges ==
    {[type |-> "slice", start |-> Some(a), stop |-> Some(b)] : a \in {0}, b \in 1..MaxSrc}
    \cup {[type |-> "none", start |-> None, stop |-> None],
          [type |-> "other", start |-> None, stop |-> None]}

InitSched ==
    /\ EndpointIdle
    /\ SliceIdle
    /\ RemoteIdle
    /\ localProblems \in [Engines -> SUBSET Tags]
    /\ chunksPerWorker \in 1..MaxCPW
    /\ ensembleClear \in BOOLEAN
    /\ useMPI \in BOOLEAN
    /\ isrcs \in SchedRanges
    /\ reduceLabels \in {<<>>, <<"u">>, <<"u", "v">>}
    /\ IF ShapeError \/ SubSliceError THEN TRUE ELSE Len(Schedule) <= MaxTasks
    /\ pc = "start"
    /\ NoTasks
    /\ NoFields

NextSched ==
    \/ Call
    \/ Wait
    \/ \E t \in TaskIds, e \in Engines, ok \in BOOLEAN : RunTask(t, e, ok)
    \/ \E t \in TaskIds : Unreachable(t)
    \/ \E t \in TaskIds, e \in Engines : ReduceUnmet(t, e)
    \/ \E t \in TaskIds, e \in Engines : ReduceEnter(t, e)
    \/ \E t \in TaskIds : ReduceLeave(t)

SpecSched == InitSched /\ [][NextSched]_vars

(* ----------------- specification: reduceLB on its own ----------------- *)

\* the dicts over some of the names, with values 0..MaxVal
Dicts(names) == UNION {[S -> 0..MaxVal] : S \in SUBSET names}

InitReduce ==
    /\ EndpointIdle
    /\ SliceIdle
    /\ RemoteIdle
    /\ NoSchedule
    /\ useMPI \in BOOLEAN
    /\ pc = "start"
    /\ NoTasks
    /\ localFields \in [Engines -> Dicts(FieldNames)]
    /\ globalFields = [e \in Engines |-> <<>>]

NextReduce ==
    \/ \E key \in FieldNames : CallReduceLB(key)
    \/ \E t \in TaskIds, e \in Engines : ReduceUnmet(t, e)
    \/ \E t \in TaskIds, e \in Engines : ReduceEnter(t, e)
    \/ \E t \in TaskIds : ReduceLeave(t)

SpecReduce == InitReduce /\ [][NextReduce]_vars

(* ---- specification: reduceLB on a controller of any high-water mark ---- *)
\* every worker has either no field yet or one of value MaxVal under 'u'
InitReduceLB ==
    /\ EndpointIdle
    /\ SliceIdle
    /\ RemoteIdle
    /\ NoSchedule
    /\ useMPI \in BOOLEAN
    /\ pc = "start"
    /\ Unscheduled
    /\ hwm \in 1..MaxHWM
    /\ localFields \in [Engines -> {<<>>, [n \in {"u"} |-> MaxVal]}]
    /\ globalFields = [e \in Engines |-> <<>>]

\* what the load balancer does with the pending task t
Dispatch(t) == \E e \in Engines : ReduceUnmet(t, e) \/ ReduceEnter(t, e) \/ Enqueue(t, e)
\* comm.reduce returns on the rank of t once every rank has entered it
Complete(t) ==
    /\ \A x \in Siblings(t) : st[x] \in {"running", "ok"}
    /\ ReduceLeave(t)

NextReduceLB ==
    \/ CallReduceLB("u")
    \/ \E t \in TaskIds, e \in Engines : ReduceUnmet(t, e)
    \/ \E t \in TaskIds, e \in Engines : ReduceEnter(t, e)
    \/ \E t \in TaskIds, e \in Engines : Enqueue(t, e)
    \/ \E t \in TaskIds : QueuedStart(t)
    \/ \E t \in TaskIds : ReduceLeave(t)

\* the load balancer does not hold a task it can hand over, an engine does not
\* hold a task it can start, and a collective every rank has entered returns
FairReduceLB ==
    \A t \in 1..NEng :
        /\ WF_vars(t \in TaskIds /\ Dispatch(t))
        /\ WF_vars(t \in TaskIds /\ QueuedStart(t))
        /\ WF_vars(t \in TaskIds /\ Complete(t))

SpecReduceLB == InitReduceLB /\ [][NextReduceLB]_vars /\ FairReduceLB

(* ------------- specification: RemoteInterface.__init__ ---------------- *)
InitConstruct ==
    /\ EndpointIdle
    /\ SliceIdle
    /\ NoSchedule
    /\ NoTasks
    /\ NoFields
    /\ NoCollective
    /\ env \in [Engines -> [{"PMI_SIZE", "OMPI_UNIVERSE_SIZE"} -> {"unset", "empty", "set"}]]
    /\ mpiOpt \in {"None", "True", "False"}
    /\ useMPI = FALSE
    /\ pc = "new"

NextConstruct == Construct

SpecConstruct == InitConstruct /\ [][NextConstruct]_vars

(* ------------ specification: the collectives of a built interface ----- *)
Keys == {"K1", "K2"}
Operators == {"+", "-", "*"}

\* a built interface, in either transport mode; every worker holds K1 and K2
InitRemote ==
    /\ EndpointIdle
    /\ SliceIdle
    /\ NoSchedule
    /\ NoTasks
    /\ NoFields
    /\ NoEnv
    /\ useMPI \in BOOLEAN
    /\ pc = "built"
    /\ ns \in [Engines -> [Keys -> {Some(v) : v \in 0..MaxVal}]]
    /\ nsBefore = ns
    /\ lastOp = Op("none", "", "", "")
    /\ result = None
    /\ calls = 0

NextRemote ==
    \/ \E key \in Keys : Get(key)
    \/ \E key \in Keys : Reduce(key)
    \/ \E key1, key2 \in Keys : ReduceMul(key1, key2, None)
    \/ \E key1, key2 \in Keys : RemoteMulE0(key1, key2)
    \/ \E key1, key2 \in Keys : RemoteDifference(key1, key2, "KR")
    \/ \E o \in Operators, key1, key2 \in Keys : RemoteOpGatherFirst(o, key1, key2, "KR")
    \/ \E key \in Keys : NormFromDifference(key)

SpecRemote == InitRemote /\ [][NextRemote]_vars

(* ---- specification: the collectives that sum over a field's elements -- *)
\* a built interface, in either transport mode; every worker holds K1 and K2,
\* one-dimensional arrays of FieldLen elements
InitArrays ==
    /\ EndpointIdle
    /\ SliceIdle
    /\ NoSchedule
    /\ NoTasks
    /\ NoFields
    /\ NoEnv
    /\ useMPI \in BOOLEAN
    /\ pc = "built"
    /\ ns \in [Engines -> [Keys -> [1..FieldLen -> 0..MaxVal]]]
    /\ nsBefore = ns
    /\ lastOp = Op("none", "", "", "")
    /\ result = None
    /\ calls = 0

NextArrays ==
    \/ \E key1, key2 \in Keys, axis \in Axes : ReduceMul(key1, key2, axis)
    \/ \E key1, key2 \in Keys : RemoteSrcEstGatherFirst("KR", key1, key2)

SpecArrays == InitArrays /\ [][NextArrays]_vars

(* ------------- specification: Endpoint.setupLocalFields --------------- *)
\* the lists of names handed to setupLocalFields
NameLists == {<<>>} \cup {<<a>> : a \in FieldNames}
                  \cup {<<a, b>> : a \in FieldNames, b \in FieldNames}

InitFields ==
    /\ SliceIdle
    /\ NoSchedule
    /\ useMPI = FALSE
    /\ NoTasks
    /\ RemoteIdle
    /\ NoSetup
    /\ pc = "endpoint"
    /\ fieldspec \in {None} \cup {Some(S) : S \in SUBSET FieldNames}
    /\ localFields \in [Engines -> FieldDicts(FieldNames)]
    /\ globalFields = [e \in Engines |-> <<>>]

NextFields ==
    \E e \in Engines, which \in {None} \cup {Some(l) : l \in NameLists} : SetupLocalFields(e, which)

SpecFields == InitFields /\ [][NextFields]_vars

(* ------- specification: Endpoint.setupLocalSurveys / setupLocalProblem -- *)
\* Endpoints as constructed: no survey, no subproblem
InitEndpoint ==
    /\ SliceIdle
    /\ NoSchedule
    /\ useMPI = FALSE
    /\ NoTasks
    /\ NoFields
    /\ RemoteIdle
    /\ EndpointIdle
    /\ pc = "endpoint"

NextEndpoint ==
    \/ \E e \in Engines, I \in SUBSET SubIdx : SetupLocalSurveys(e, I)
    \/ \E e \in Engines, isub \in SubIdx, tag \in Tags : SetupLocalProblem(e, isub, tag)

SpecEndpoint == InitEndpoint /\ [][NextEndpoint]_vars

(* ------------------------------- C2 ----------------------------------- *)
\* C2: for every slice [start, stop) with start <= stop and every chunk
\* count c >= 1 the sub-slices _subSlice returns are contiguous (each begins
\* where the previous one ends, the first at start, the last ending at stop),
\* pairwise disjoint, and every index of [start, stop) lies in exactly one.
C2_PartitionCoverage ==
    called =>
        /\ Len(subs) = chunks
        /\ subs[1].start[1] = StartOf(insl)
        /\ subs[chunks].stop[1] = insl.stop[1]
        /\ \A k \in 1..(chunks - 1) : subs[k].stop[1] = subs[k+1].start[1]
        /\ \A k \in 1..chunks : subs[k].start[1] <= subs[k].stop[1]
        /\ \A j, k \in 1..chunks : j # k => Indices(subs[j]) \cap Indices(subs[k]) = {}
        /\ \A n \in StartOf(insl)..(insl.stop[1] - 1) :
              Cardinality({k \in 1..chunks : n \in Indices(subs[k])}) = 1
        /\ \A k \in 1..chunks : Indices(subs[k]) \subseteq StartOf(insl)..(insl.stop[1] - 1)

\* a call that split a range of several indices into several chunks, one empty
C2_Witness ==
    /\ called
    /\ chunks >= 3
    /\ insl.stop[1] - StartOf(insl) = 2
    /\ \E k \in 1..chunks : Indices(subs[k]) = {}
    /\ \E k \in 1..chunks : Indices(subs[k]) # {}

(* ------------------------------- C1 ----------------------------------- *)
\* the compute and clear tasks whose body has run on some engine
Ran == {t \in TaskIds : tasks[t].kind \in {"compute", "clear"} /\ eng[t] # -1}

\* C1: every compute task and every clear task submitted for a tag T runs its
\* body only on a worker that hosts T (T is a key of its localProblems), under
\* individual and under ensemble clear.
C1_Affinity == \A t \in Ran : tasks[t].tag \in localProblems[eng[t]]

(* ------------------------------- C3 ----------------------------------- *)
ComputesOf(T) == {t \in TaskIds : tasks[t].kind = "compute" /\ tasks[t].tag = T}
ChunksOf(T) == subSlice(EffSlice, chunksPerWorker * Len(RelIDs(T)))

\* C3: for every tag the scheduler submits as many compute tasks (and adds as
\* many Compute nodes) as there are non-empty sub-slices among the
\* chunksPerWorker x |workers(T)| sub-slices of isrcs, and no compute task is
\* submitted with an empty sub-slice.
C3_EmptyDropped ==
    pc = "submitted" =>
        /\ \A T \in AllTags :
              /\ Cardinality(ComputesOf(T))
                    = Cardinality({k \in DOMAIN ChunksOf(T) : Indices(ChunksOf(T)[k]) # {}})
              /\ Cardinality({n \in G.nodes : n.kind = "Compute" /\ n.tag = T})
                    = Cardinality(ComputesOf(T))
        /\ \A t \in TaskIds : tasks[t].kind = "compute" => Indices(tasks[t].work) # {}

(* ------------------------------- C4 ----------------------------------- *)
\* a reduce job has started once an engine has run _reduceJob for it
Started(t) == st[t] \in {"running", "ok"} \/ tried[t] # {}
ClearTaskIds == {t \in TaskIds : tasks[t].kind = "clear"}
\* the tasks of the j-th reduction: those whose key is the j-th label
ReductionOf(j) == {t \in TaskIds : tasks[t].kind = "reduce" /\ tasks[t].key = reduceLabels[j]}

\* C4: the reductions of one invocation are serialized. A job of the first
\* reduction starts only after every clear task has completed, a job of
\* reduction k+1 only after every job of reduction k has completed, and no
\* two reductions are inside comm.reduce (writing globalFields) at once.
C4_ReductionsSerialized ==
    Submitted =>
        \A j \in 1..Len(reduceLabels) : \A t \in ReductionOf(j) :
            /\ Started(t) =>
                  /\ \A c \in ClearTaskIds : st[c] = "ok"
                  /\ \A i \in 1..(j - 1) : \A x \in ReductionOf(i) : st[x] = "ok"
            /\ st[t] = "running" =>
                  \A i \in (1..Len(reduceLabels)) \ {j} :
                      \A x \in ReductionOf(i) : st[x] # "running"

\* the second reduction inside comm.reduce, after clears and the first reduction
C4_Witness ==
    /\ Submitted
    /\ Len(reduceLabels) = 2
    /\ ClearTaskIds # {}
    /\ \E t \in ReductionOf(2) : st[t] = "running"
    /\ \A x \in ReductionOf(1) : st[x] = "ok"

(* ------------------------------- C5 ----------------------------------- *)
\* wait returned and every job it blocked on succeeded
WaitSucceeded == pc = "waited" /\ \A t \in waitedOn : st[t] = "ok"
TailPreds == UNION {Preds(tn) : tn \in Preds(EndNode)}

\* C5: after wait(G) has returned successfully every node of G is ready-ok
\* (status 2), and when End has no jobs wait has blocked on the jobs of every
\* predecessor of every Tail node. Stated here for the nodes that can have a
\* status from jobs at all: those whose 'jobs' list is not empty.
C5_WaitAllReadyOk ==
    WaitSucceeded =>
        /\ \A n \in DOMAIN G.jobs : Len(G.jobs[n]) > 0 => CodeStatus(n) = 2
        /\ Len(G.jobs[EndNode]) = 0 => \A wn \in TailPreds : JobIds(wn) \subseteq waitedOn

(* ------------------------------- C6 ----------------------------------- *)
\* the one task of a node that carries a single job
TaskOf(n) == CHOOSE t \in JobIds(n) : TRUE
ClearsOf(T) == {t \in TaskIds : tasks[t].kind = "clear" /\ tasks[t].tag = T}

\* C6: under individual clear the clear task made for a compute task (the Wrap
\* node its Compute node points to) runs only after that compute task has
\* completed, and on the engine that ran it; under ensemble clear one clear
\* task per worker of workers(T) is submitted, and each runs only after every
\* compute task of T has completed.
C6_ClearAfterCompute ==
    Submitted =>
        /\ ~ensembleClear =>
              /\ \A ed \in G.edges :
                    (ed[1].kind = "Compute" /\ ed[2].kind = "Wrap"
                       /\ eng[TaskOf(ed[2])] # -1) =>
                            /\ st[TaskOf(ed[1])] = "ok"
                            /\ eng[TaskOf(ed[2])] = eng[TaskOf(ed[1])]
              /\ \A n \in G.nodes : n.kind = "Compute" =>
                    Cardinality({ed \in G.edges : ed[1] = n /\ ed[2].kind = "Wrap"}) = 1
        /\ ensembleClear =>
              \A T \in AllTags :
                  /\ {tasks[t].arg : t \in ClearsOf(T)}
                        = {Some(r) : r \in {e \in Engines : T \in localProblems[e]}}
                  /\ Cardinality(ClearsOf(T))
                        = Cardinality({e \in Engines : T \in localProblems[e]})
                  /\ \A t \in ClearsOf(T) :
                        eng[t] # -1 => \A c \in ComputesOf(T) : st[c] = "ok"

\* an individual clear that has run on its compute's engine while another
\* compute task of the tag has not run yet
C6_Witness ==
    /\ Submitted
    /\ ~ensembleClear
    /\ \E ed \in G.edges :
          /\ ed[1].kind = "Compute" /\ ed[2].kind = "Wrap"
          /\ st[TaskOf(ed[2])] = "ok"
          /\ eng[TaskOf(ed[2])] = eng[TaskOf(ed[1])]
          /\ \E c \in ComputesOf(ed[1].tag) : st[c] = "pending"

\* ensemble clear: a clear task has run after the two compute tasks of its tag
C6_WitnessEnsemble ==
    /\ Submitted
    /\ ensembleClear
    /\ \E T \in AllTags :
          /\ Cardinality(ComputesOf(T)) = 2
          /\ \E t \in ClearsOf(T) : st[t] = "ok"

(* ------------------------------- C10 ---------------------------------- *)
\* every job of the reduceLB call has completed
ReduceDone == pc = "submitted" /\ tasks # <<>> /\ \A t \in TaskIds : st[t] = "ok"
ReducedKey == tasks[1].key

RECURSIVE SumOver(_, _)
\* the sum of every engine's localFields[key], engine by engine
SumOver(S, key) ==
    IF S = {} THEN 0
    ELSE LET e == CHOOSE x \in S : TRUE
         IN  localFields[e][key] + SumOver(S \ {e}, key)

GetenvSet(v) == v # "unset"

\* C7 as stated: after construction useMPI is true if and only if collective
\* transport was requested (MPI true or defaulted) and every worker has at
\* least one of PMI_SIZE, OMPI_UNIVERSE_SIZE set, whichever it is.
C7_EveryWorkerSome ==
    pc = "built" =>
        (useMPI <=> /\ mpiOpt \in {"None", "True"}
                    /\ \A w \in Engines : \E v \in {"PMI_SIZE", "OMPI_UNIVERSE_SIZE"} :
                          GetenvSet(env[w][v]))

\* C7, amended: after construction useMPI is true if and only if collective
\* transport was requested (MPI true or defaulted) and one of the two
\* indicators, the same one for all, is set to a non-empty value on every worker.
C7_OneIndicatorEverywhere ==
    pc = "built" =>
        (useMPI <=> /\ mpiOpt \in {"None", "True"}
                    /\ \E v \in {"PMI_SIZE", "OMPI_UNIVERSE_SIZE"} :
                          \A w \in Engines : env[w][v] = "set")

\* built in collective mode where one worker has OMPI_UNIVERSE_SIZE only and
\* another has both indicators
C7_Witness ==
    /\ pc = "built"
    /\ useMPI
    /\ \E w \in Engines : env[w]["PMI_SIZE"] = "unset"
    /\ \E w \in Engines : env[w]["PMI_SIZE"] = "set"

(* ------------------------------- C8 ----------------------------------- *)
RECURSIVE SumOfWorkers(_, _, _)
\* the elementwise sum of the workers' values of a name, worker by worker
SumOfWorkers(n, S, key) ==
    LET w == CHOOSE x \in S : TRUE
    IN  IF S = {w} THEN n[w][key] ELSE VAdd(SumOfWorkers(n, S \ {w}, key), n[w][key])

C8_WitnessStar ==
    /\ lastOp.name = "reduce"
    /\ ~useMPI
    /\ nsBefore[0][lastOp.k1] = Some(0)
    /\ result = Some(1)

(* ------------------------------- C9 ----------------------------------- *)
\* the name a collective documents as its result, if any
ResultNames(op) == IF op.kr = "" THEN {} ELSE {op.kr}

\* C9: after get, reduce, reduceMul, remoteDifference, remoteOpGatherFirst,
\* remoteMulE0 or normFromDifference has returned, no worker, root or not,
\* holds a temp_ name the collective created: what a worker's namespace has
\* gained is at most the documented result name.
C9_TemporariesDeleted ==
    (lastOp.name # "none" /\ ~lastOp.raised) =>
        \A w \in Engines : (DOMAIN ns[w]) \ (DOMAIN nsBefore[w]) \subseteq ResultNames(lastOp)

(* ------------------------------- C11 ---------------------------------- *)
\* C11: after remoteSrcEstGatherFirst(KR, K1, K2) has returned, in either
\* transport mode, every worker holds under KR the estimate computed from the
\* sum of K1 over all workers and the root's K2 (so the two modes store
\* the same value for the same K1, K2).
C11_SrcEstFromSum ==
    (lastOp.name = "remoteSrcEstGatherFirst" /\ ~lastOp.raised) =>
        \A w \in Engines :
            ns[w][lastOp.kr] = SrcEst(SumOfWorkers(nsBefore, Engines, lastOp.k1),
                                      nsBefore[0][lastOp.k2])

(* ------------------------------- C12 ---------------------------------- *)
\* C12: reduceMul(K1, K2, axis) returns the elementwise product of the sums
\* of K1 and of K2 over the workers and, when axis is given, the sum of that
\* product along the axis, in either transport mode.
C12_ReduceMulAxis ==
    (lastOp.name \in {"reduceMul", "reduceMul_axis0"} /\ ~lastOp.raised) =>
        LET prod == VMul(SumOfWorkers(nsBefore, Engines, lastOp.k1),
                         SumOfWorkers(nsBefore, Engines, lastOp.k2))
        IN  result = IF lastOp.name = "reduceMul" THEN prod ELSE VSum(prod)

(* ------------------------------- C13 ---------------------------------- *)
\* a set-up call of the given name has been made
SetupCalled(name) == epOp.name = name

\* C13: after setupLocalFields() with no argument, whatever localFields held
\* before, localFields has exactly the names of fieldspec (none when there is
\* no fieldspec), each with an empty container, no stale name remains, and
\* calling it again changes nothing.
C13_SetupAllIdempotent ==
    (SetupCalled("setupLocalFields") /\ epOp.arg = None) =>
        LET lf == localFields[epOp.e]
            names == IF fieldspec = None THEN {} ELSE fieldspec[1]
        IN  /\ ~epOp.raised
            /\ DOMAIN lf = names
            /\ \A n \in names : lf[n] = Empty
            /\ SetupFields(lf, fieldspec, None) = [lf |-> lf, raised |-> FALSE]

\* setupLocalFields() called where localFields held data under a name of
\* fieldspec and a stale name fieldspec does not have
C13_Witness ==
    /\ SetupCalled("setupLocalFields") /\ epOp.arg = None
    /\ fieldspec # None
    /\ \E n \in fieldspec[1] : n \in DOMAIN epBefore /\ epBefore[n] = Filled
    /\ \E n \in DOMAIN epBefore : n \notin fieldspec[1]

(* ------------------------------- C14 ---------------------------------- *)
\* the names in a list
Listed(l) == {l[i] : i \in DOMAIN l}

\* C14: after setupLocalFields(names) with a list of names, the empty list
\* included, every entry of localFields whose name is not listed is as it
\* was: still there, with the same container.
C14_OthersUntouched ==
    (SetupCalled("setupLocalFields") /\ epOp.arg # None) =>
        \A n \in (DOMAIN epBefore) \ Listed(epOp.arg[1]) :
            n \in DOMAIN localFields[epOp.e] /\ localFields[epOp.e][n] = epBefore[n]

(* ------------------------------- C15 ---------------------------------- *)
\* C15: when isrcs is neither a slice nor None, __call__ can only raise, and
\* when it has raised no worker has been queried, no compute, clear or reduce
\* task has been submitted and there is no graph.
C15_ShapeErrorFirst ==
    ShapeError =>
        /\ pc \in {"start", "raised"}
        /\ pc = "raised" => (~queried /\ tasks = <<>> /\ G = EmptyGraph)

\* __call__ has raised on a range of another type, with tags hosted on the
\* workers and reductions in the schedule
C15_Witness ==
    /\ ShapeError
    /\ pc = "raised"
    /\ AllTags # {}
    /\ useMPI /\ reduceLabels # <<>>

(* ------------------------------- C16 ---------------------------------- *)
\* nsrc = self.problem.nsrc: the sources are 0..nsrc-1
nsrc == MaxSrc

\* C16: when isrcs is None, the all-sources sentinel, __call__ does not fail:
\* it returns a graph, and for every tag the sub-slices handed to its compute
\* tasks cover exactly the sources 0..nsrc-1.
C16_SentinelSchedulesAll ==
    (isrcs.type = "none" /\ pc # "start") =>
        /\ pc \in {"submitted", "waited"}
        /\ BeginNode \in G.nodes
        /\ \A T \in AllTags :
              UNION {Indices(tasks[t].work) : t \in ComputesOf(T)} = 0..(nsrc - 1)

(* ------------------------------- C17 ---------------------------------- *)
\* the status C17 gives a node: 0 without any job (no job list, or an empty
\* one), 1 when one of its jobs is pending, 2 when all its jobs are ready and
\* successful, 3 when they are ready and one failed
StatusOfJobs(n) ==
    IF n \notin DOMAIN G.jobs \/ JobIds(n) = {} THEN 0
    ELSE IF \E t \in JobIds(n) : ~Ready(t) THEN 1
    ELSE IF \A t \in JobIds(n) : st[t] = "ok" THEN 2 ELSE 3

\* C17: for every node of a graph __call__ returned, _codeStatus yields a
\* status (it does not raise), and that status is the one the node's jobs have.
C17_StatusTotalAccurate ==
    pc \in {"submitted", "waited"} =>
        \A n \in G.nodes : CodeStatus(n) = StatusOfJobs(n)

(* ------------------------------- C18 ---------------------------------- *)
\* C18: on every worker, after any sequence of setupLocalSurveys and
\* setupLocalProblem calls: a setupLocalProblem for a tag already registered
\* has left the stored subproblem as it was; every subproblem of localProblems
\* is paired with a survey that localSurveys holds; and a setupLocalProblem
\* whose survey was missing has raised and left localProblems unchanged.
C18_EndpointInvariant ==
    /\ (SetupCalled("setupLocalProblem") /\ epOp.arg.tag \in DOMAIN epBefore.problems) =>
            problems[epOp.e][epOp.arg.tag] = epBefore.problems[epOp.arg.tag]
    /\ \A e \in Engines : \A tag \in DOMAIN problems[e] :
            \E isub \in DOMAIN localSurveys[e] : localSurveys[e][isub] = problems[e][tag].survey
    /\ (SetupCalled("setupLocalProblem") /\ epOp.arg.isub \notin DOMAIN epBefore.surveys) =>
            (epOp.raised /\ problems[epOp.e] = epBefore.problems)

(* ------------------------------- C19 ---------------------------------- *)
\* W = stop - start of the slice handed to _subSlice
Width == insl.stop[1] - StartOf(insl)
\* round(i*W/c), halves upwards, and floor(i*W/c)
RoundDiv(a, c) == (2 * a + c) \div (2 * c)
FloorDiv(a, c) == a \div c

\* C19 as stated: sub-slice i of the c sub-slices _subSlice returns is
\* [start + round(i*W/c), start + round((i+1)*W/c)), for every i in 0..c-1.
C19_BoundariesRound ==
    called =>
        \A k \in 1..chunks :
            /\ subs[k].start[1] = StartOf(insl) + RoundDiv((k - 1) * Width, chunks)
            /\ subs[k].stop[1] = StartOf(insl) + RoundDiv(k * Width, chunks)

\* C19, amended: sub-slice i of the c sub-slices _subSlice returns is
\* [start + floor(i*W/c), start + floor((i+1)*W/c)), for every i in 0..c-1:
\* the quotient is rounded down.
C19_BoundariesFloor ==
    called =>
        /\ Len(subs) = chunks
        /\ \A k \in 1..chunks :
            /\ subs[k].start[1] = StartOf(insl) + FloorDiv((k - 1) * Width, chunks)
            /\ subs[k].stop[1] = StartOf(insl) + FloorDiv(k * Width, chunks)

\* _subSlice has returned for a slice with a non-zero start and a boundary
\* whose quotient i*W/c rounds up to the next integer
C19_Witness ==
    /\ called
    /\ StartOf(insl) > 0
    /\ \E k \in 1..(chunks - 1) :
          /\ RoundDiv(k * Width, chunks) > FloorDiv(k * Width, chunks)
          /\ (2 * k * Width) % chunks # 0

(* ------------------------------- C20 ---------------------------------- *)
\* every task of each reduction after the first has the whole job of the
\* reduction before it among its 'after' dependencies
ReductionsChained ==
    \A j \in 2..Len(reduceLabels) : \A t \in ReductionOf(j) :
        ReductionOf(j - 1) \subseteq tasks[t].after

\* C20 as stated: in the graph __call__ returned, End's job list is the job
\* of the last reduction only, and each reduction after the first is
\* submitted after the job of the one before it.
C20_EndJobsLastOnly ==
    (Submitted /\ useMPI /\ Len(reduceLabels) > 0) =>
        /\ G.jobs[EndNode] = <<ReductionOf(Len(reduceLabels))>>
        /\ ReductionsChained

\* C20, amended: in the graph __call__ returned, End's job list holds the
\* job of every reduction, in the order of the reduce labels (so its last
\* element is the last reduction's job), and is empty when reduceLB submits
\* nothing (star mode, or no reduce label); each reduction after the first
\* is submitted after the job of the one before it.
C20_EndJobsAll ==
    Submitted =>
        /\ Len(G.jobs[EndNode]) = IF useMPI THEN Len(reduceLabels) ELSE 0
        /\ \A j \in 1..Len(G.jobs[EndNode]) : G.jobs[EndNode][j] = ReductionOf(j)
        /\ ReductionsChained

\* a graph returned in collective mode for two reduce labels, with clear
\* tasks before the reductions
C20_Witness ==
    /\ Submitted
    /\ useMPI
    /\ Len(reduceLabels) = 2
    /\ ClearTaskIds # {}
    /\ ReductionOf(2) # {}

(* ------------------------------- C21 ---------------------------------- *)
\* the nodes of a kind, of a kind and tag
NodesOf(kind) == {n \in G.nodes : n.kind = kind}
NodesOfTag(kind, T) == {n \in G.nodes : n.kind = kind /\ n.tag = T}
Succs(S) == {e[2] : e \in {x \in G.edges : x[1] \in S}}

RECURSIVE Closure(_)
\* S and everything reachable from it along the edges
Closure(S) == LET N == S \cup Succs(S) IN IF N = S THEN S ELSE Closure(N)
\* the nodes reachable from n by a path of one edge or more
Descendants(n) == Closure(Succs({n}))
Acyclic == \A n \in G.nodes : n \notin Descendants(n)
\* n lies on a path from the begin node to End
OnPath(n) ==
    /\ EndNode \in Descendants(BeginNode)
    /\ n = BeginNode \/ n \in Descendants(BeginNode)
    /\ n = EndNode \/ EndNode \in Descendants(n)

\* the graph under individual clear, node by node and edge by edge: one begin
\* and one End node, one Head and one Tail per hosted tag, one Compute node
\* per compute task, one clear node per Compute node, wired
\* Begin -> Head(T) -> Compute(T,i) -> clear(T,i) -> Tail(T) -> End, acyclic
IndividualShape ==
    /\ Acyclic
    /\ NodesOf("Beginning") = {BeginNode} /\ NodesOf("End") = {EndNode}
    /\ \A n \in G.nodes : n.kind \in {"Beginning", "Head", "Compute", "Wrap", "Tail", "End"}
    /\ \A T \in Tags :
          LET has == IF T \in AllTags THEN 1 ELSE 0
          IN  /\ Cardinality(NodesOfTag("Head", T)) = has
              /\ Cardinality(NodesOfTag("Tail", T)) = has
              /\ Cardinality(NodesOfTag("Compute", T)) = Cardinality(ComputesOf(T))
              /\ Cardinality(NodesOfTag("Wrap", T)) = Cardinality(NodesOfTag("Compute", T))
              /\ \A c \in NodesOfTag("Compute", T) :
                    /\ \E t \in ComputesOf(T) : JobIds(c) = {t}
                    /\ Preds(c) = NodesOfTag("Head", T)
                    /\ \E w \in NodesOfTag("Wrap", T) :
                          /\ Succs({c}) = {w} /\ Preds(w) = {c}
                          /\ Succs({w}) = NodesOfTag("Tail", T)
                          /\ \E t \in ClearsOf(T) : JobIds(w) = {t}
              /\ \A h \in NodesOfTag("Head", T) :
                    Preds(h) = {BeginNode} /\ Succs({h}) = NodesOfTag("Compute", T)
              /\ \A tl \in NodesOfTag("Tail", T) :
                    Preds(tl) = NodesOfTag("Wrap", T) /\ Succs({tl}) = {EndNode}
    /\ Succs({BeginNode}) = NodesOf("Head") /\ Preds(BeginNode) = {}
    /\ Preds(EndNode) = NodesOf("Tail") /\ Succs({EndNode}) = {}

\* C21 as stated: under individual clear the returned graph has that shape
\* and every node lies on a path from the begin node to End.
C21_ShapeAllOnPath ==
    (Submitted /\ ~ensembleClear) =>
        (IndividualShape /\ \A n \in G.nodes : OnPath(n))

\* C21, amended: under individual clear the returned graph has that shape;
\* when some worker hosts a tag every node lies on a path from the begin node
\* to End, and when no worker hosts any tag the graph is the begin node and
\* End with no edge between them.
C21_ShapeOnPathWithTags ==
    (Submitted /\ ~ensembleClear) =>
        /\ IndividualShape
        /\ IF AllTags # {} THEN \A n \in G.nodes : OnPath(n)
           ELSE G.nodes = {BeginNode, EndNode} /\ G.edges = {}

\* two workers with one distinct tag each and one source: 2 compute, 2 clear,
\* 2 head and 2 tail nodes, 1 begin, 1 end
C21_Witness ==
    /\ Submitted /\ ~ensembleClear
    /\ \A e \in Engines : Cardinality(localProblems[e]) = 1
    /\ Cardinality(AllTags) = 2
    /\ Cardinality(NodesOf("Compute")) = 2 /\ Cardinality(NodesOf("Wrap")) = 2
    /\ Cardinality(NodesOf("Head")) = 2 /\ Cardinality(NodesOf("Tail")) = 2
    /\ Cardinality(G.nodes) = 10

(* ------------------------------ C22 ----------------------------------- *)
\* a worker sits in comm.reduce while the reduce job of another rank waits
\* behind it on the same worker
QueuedBehindBlocked ==
    \E t, x \in TaskIds :
        /\ tasks[t].kind = "reduce" /\ tasks[x].kind = "reduce"
        /\ st[t] = "running" /\ st[x] = "queued"
        /\ eng[x] = eng[t]
        /\ tasks[x].arg # tasks[t].arg

\* reduceLB has handed its jobs to the load balancer, in collective mode
ReduceCalled == pc = "submitted" /\ useMPI /\ tasks # <<>>

\* every _reduceJob ran on the rank it names and comm.reduce has returned
ReduceCompleted ==
    /\ ReduceDone
    /\ \A t \in TaskIds : eng[t] = tasks[t].arg[1]

====
